---- MODULE Spec2Model ----
\* Model of the oc_patch Ansible module (src/library/oc_patch.py): one
\* invocation of main() -- absolute-path check, GET of the object, dispatch,
\* the idempotency gate and PATCH of patchObject, and the classification of
\* apiResponse -- plus the pure helpers getPathValueFromDict and ApiEndpoint.
\* Python strings are TLA+ strings; JSON values are tagged records.
EXTENDS Integers, Sequences, FiniteSets, TLC

(***************************************************************************)
(* Strings                                                                 *)
(***************************************************************************)
RECURSIVE SplitFrom(_, _, _)
SplitFrom(s, sep, cur) ==
  IF s = "" THEN <<cur>>
  ELSE IF Head(s) = sep THEN <<cur>> \o SplitFrom(Tail(s), sep, "")
  ELSE SplitFrom(Tail(s), sep, cur \o Head(s))

\* str.split(sep) for a one-character sep
SplitSep(s, sep) == SplitFrom(s, sep, "")
\* str.split("/")
Split(s) == SplitSep(s, "/")

\* str.rstrip("/")
RECURSIVE RStripSlash(_)
RStripSlash(s) ==
  IF s # "" /\ SubSeq(s, Len(s), Len(s)) = "/"
  THEN RStripSlash(SubSeq(s, 1, Len(s) - 1)) ELSE s

\* str.lstrip(chars): removes every leading character that is in chars
RECURSIVE LStrip(_, _)
LStrip(s, chars) ==
  IF s # "" /\ Head(s) \in chars THEN LStrip(Tail(s), chars) ELSE s

\* Python's "sub in s" for strings
Contains(s, sub) ==
  \E i \in 1..(Len(s) - Len(sub) + 1) : SubSeq(s, i, i + Len(sub) - 1) = sub

\* re.match("^/", s)
StartsWithSlash(s) == s # "" /\ Head(s) = "/"

(***************************************************************************)
(* JSON values                                                             *)
(***************************************************************************)
Str(s) == [t |-> "str", v |-> s, m |-> <<>>]
Dict(f) == [t |-> "dict", v |-> "", m |-> f]
EmptyDict == Dict(<<>>)

\* reduce(operator.getitem, mapPath, jsonDict): KeyError on a missing key of a
\* dict, TypeError when indexing a string by a string key.
RECURSIVE GetItemReduce(_, _)
GetItemReduce(v, segs) ==
  IF segs = <<>> THEN [r |-> "ok", v |-> v]
  ELSE IF v.t = "dict"
       THEN IF Head(segs) \in DOMAIN v.m
            THEN GetItemReduce(v.m[Head(segs)], Tail(segs))
            ELSE [r |-> "KeyError", v |-> Str("")]
       ELSE [r |-> "TypeError", v |-> Str("")]

FailedKeyError == Str("FailedKeyError")

\* getPathValueFromDict: split on "/", drop the first item, reduce getitem;
\* KeyError -> the string "FailedKeyError"; any other error -> raise Exception.
getPathValueFromDict(jsonDict, path) ==
  LET red == GetItemReduce(jsonDict, Tail(Split(path)))
  IN  IF red.r = "ok" THEN [raise |-> FALSE, v |-> red.v]
      ELSE IF red.r = "KeyError" THEN [raise |-> FALSE, v |-> FailedKeyError]
      ELSE [raise |-> TRUE, v |-> Str("")]

(***************************************************************************)
(* Outcomes: module.exit_json / module.fail_json print one result document *)
(* and raise SystemExit.                                                   *)
(***************************************************************************)
NA == Str("N/A")

Outcome(failed, changed, msg, status, newv, oldv, test) ==
  [failed |-> failed, changed |-> changed, msg |-> msg, status |-> status,
   newv |-> newv, oldv |-> oldv, test |-> test]

\* Result of calling apiResponse: the documents it printed and how it left:
\* "exit" (SystemExit from exit_json/fail_json), "exc" (another exception)
\* or "none" (normal return).
Exit(o) == [out |-> <<o>>, raise |-> "exit"]
Raised == [out |-> <<>>, raise |-> "exc"]
Returned == [out |-> <<>>, raise |-> "none"]

\* An apiResult: the integer 0 passed by the gate, or a requests.Response.
IntResult(n) == [kind |-> "int", status |-> n, body |-> Str("")]
Response(st, b) == [kind |-> "resp", status |-> st, body |-> b]

\* Python truth value: int is falsy iff 0; Response.__bool__ is Response.ok,
\* False for 400 <= status_code < 600.
Truthy(r) ==
  IF r.kind = "int" THEN r.status # 0
  ELSE ~(400 <= r.status /\ r.status < 600)

RemoveNeedle == "Unable to remove nonexistant key:"

\* apiResponse, "if not apiResult" block
ApiResponseNoResult(op, getResult) ==
  IF op = "replace"
  THEN Exit(Outcome(TRUE, FALSE, "NO CHANGE: Path does not already exist, consider using add method",
                    "N/A", NA, NA, "N/A"))
  ELSE IF op = "add"
  THEN Exit(Outcome(TRUE, FALSE, "NO CHANGE: Path already exists, consider using replace method.",
                    "N/A", NA, NA, "N/A"))
  ELSE Returned

\* apiResponse, 200 <= status_code <= 299 branch
ApiResponse2xx(op, path, apiResult, getResult) ==
  IF op \in {"replace", "add", "remove"}
  THEN LET a == getPathValueFromDict(apiResult.body, path)
           g == getPathValueFromDict(getResult.body, path)
       IN  IF a.raise \/ g.raise THEN Raised
           ELSE IF a.v = g.v
           THEN Exit(Outcome(FALSE, FALSE, "NO CHANGE: " \o op \o " successful, specified path already contained value.",
                             apiResult.status, a.v, g.v, "N/A"))
           ELSE Exit(Outcome(FALSE, FALSE, "CHANGED: " \o op \o " successful, specified path was updated with new value.",
                             apiResult.status, a.v, g.v, "N/A"))
  ELSE IF op = "test"
  THEN Exit(Outcome(FALSE, FALSE, "NO CHANGE: Test successful, specified path contains value.",
                    apiResult.status, NA, NA, "True"))
  ELSE IF op = "move"
  THEN Exit(Outcome(FALSE, TRUE, "CHANGED: " \o op \o " sucessful, specified path sucessfully moved.",
                    apiResult.status, NA, NA, "N/A"))
  ELSE IF op = "get"
  THEN Exit(Outcome(FALSE, TRUE, "NO CHANGE: " \o op \o " sucessful.",
                    apiResult.status, NA, NA, "N/A"))
  ELSE Returned

\* apiResult.json()['message'] exists (KeyError/TypeError otherwise)
HasMessage(b) == b.t = "dict" /\ "message" \in DOMAIN b.m
\* needle in message: substring test on a string, key test on a dict
MessageHasNeedle(b) ==
  IF b.m["message"].t = "str" THEN Contains(b.m["message"].v, RemoveNeedle)
  ELSE RemoveNeedle \in DOMAIN b.m["message"].m

\* Variants of ApiResponse500: test's 500 reported as a failure; remove's
\* absent-key 500 reported as a failure.
ApiResponse500MutTest(op, apiResult) ==
  IF op \in {"remove", "move"} /\ ~HasMessage(apiResult.body) THEN Raised
  ELSE IF op = "remove" /\ MessageHasNeedle(apiResult.body)
  THEN Exit(Outcome(FALSE, FALSE, "NO CHANGE: Key to be removed is already non-existant",
                    500, NA, NA, "N/A"))
  ELSE IF op = "move" /\ MessageHasNeedle(apiResult.body)
  THEN Exit(Outcome(TRUE, FALSE, "FAILED: Key to be moved does not exist in this path.",
                    500, NA, NA, "N/A"))
  ELSE IF op = "test"
  THEN Exit(Outcome(TRUE, FALSE, "NO CHANGE: Test unsucessful, specified path does not contain value.",
                    500, NA, NA, "False"))
  ELSE Returned

ApiResponse500MutRemove(op, apiResult) ==
  IF op \in {"remove", "move"} /\ ~HasMessage(apiResult.body) THEN Raised
  ELSE IF op \in {"remove", "move"} /\ MessageHasNeedle(apiResult.body)
  THEN Exit(Outcome(TRUE, FALSE, "FAILED: Key to be moved does not exist in this path.",
                    500, NA, NA, "N/A"))
  ELSE IF op = "test"
  THEN Exit(Outcome(FALSE, FALSE, "NO CHANGE: Test unsucessful, specified path does not contain value.",
                    500, NA, NA, "False"))
  ELSE Returned

\* apiResponse, status_code == 500 branch
ApiResponse500(op, apiResult) ==
  IF op \in {"remove", "move"} /\ ~HasMessage(apiResult.body) THEN Raised
  ELSE IF op = "remove" /\ MessageHasNeedle(apiResult.body)
  THEN Exit(Outcome(FALSE, FALSE, "NO CHANGE: Key to be removed is already non-existant",
                    500, NA, NA, "N/A"))
  ELSE IF op = "move" /\ MessageHasNeedle(apiResult.body)
  THEN Exit(Outcome(TRUE, FALSE, "FAILED: Key to be moved does not exist in this path.",
                    500, NA, NA, "N/A"))
  ELSE IF op = "test"
  THEN Exit(Outcome(FALSE, FALSE, "NO CHANGE: Test unsucessful, specified path does not contain value.",
                    500, NA, NA, "False"))
  ELSE Returned

\* apiResponse(module, apiResult, getResult)
apiResponse(op, path, apiResult, getResult) ==
  IF ~Truthy(apiResult) /\ op \in {"replace", "add"}
  THEN ApiResponseNoResult(op, getResult)
  ELSE IF apiResult.kind = "int" THEN Raised   \* 0 .status_code: AttributeError
  ELSE IF 200 <= apiResult.status /\ apiResult.status <= 299
  THEN ApiResponse2xx(op, path, apiResult, getResult)
  ELSE IF apiResult.status = 401
  THEN Exit(Outcome(TRUE, FALSE, "FAILURE: Server refused action, check your credentials.",
                    401, NA, NA, "N/A"))
  ELSE IF apiResult.status = 500
  THEN ApiResponse500(op, apiResult)
  ELSE Exit(Outcome(TRUE, FALSE, "FAILED: API call returned failure code.",
                    apiResult.status, NA, NA, "False"))

(***************************************************************************)
(* Inputs of one invocation and the responses the server may send          *)
(***************************************************************************)
Ops == {"get", "replace", "add", "remove", "move", "test", "delete", "", "a.d", "add|x"}
Paths == {"/data/k", "/data/k/", "data/k", "/data/k/z", "/data/j"}
UserValue == Str("new")
UserFrom == "/data/j"

DataBody(inner) == Dict("data" :> inner)
BodyOld == DataBody(Dict("k" :> Str("old")))
BodyNew == DataBody(Dict("k" :> Str("new")))
BodyEmpty == DataBody(EmptyDict)
BodySentinel == DataBody(Dict("k" :> FailedKeyError))
BodyFlat == DataBody(Str("old"))
MsgBody(s) == Dict("message" :> Str(s))
MsgAbsentKey == MsgBody("Unable to remove nonexistant key: /data/k")
MsgOther == MsgBody("the server rejected the patch")
MsgDict == Dict("message" :> EmptyDict)
MsgNoColon == MsgBody("Unable to remove nonexistant key /data/k")

GetResponses ==
  {Response(200, b) : b \in {BodyOld, BodyNew, BodyEmpty, BodySentinel, BodyFlat}}
  \cup {Response(st, MsgOther) : st \in {401, 404, 500}}
PatchResponses ==
  {Response(200, b) : b \in {BodyOld, BodyNew, BodyEmpty}}
  \cup {Response(500, b) : b \in {MsgAbsentKey, MsgOther, MsgDict, MsgNoColon}}
  \cup {Response(st, MsgOther) : st \in {401, 404}}
\* requests raising (connection error, ...)
TransportError == [kind |-> "error", status |-> 0, body |-> Str("")]

\* main()'s dispatch test: re.search("\\b" + op + "\\b", SelectSubject).
\* The pattern is built from op; ops here are letters, "." (any character)
\* and "|" (alternation), so "\b" binds to the first and last alternative.
SelectSubject == "replace|add|remove|move|test"
WordChars == "abcdefghijklmnopqrstuvwxyzABCDEFGHIJKLMNOPQRSTUVWXYZ0123456789_"
WordChar(c) == Contains(WordChars, c)
\* \b before position pos of s (1..Len(s)+1)
WordBoundary(s, pos) ==
  (pos > 1 /\ WordChar(SubSeq(s, pos - 1, pos - 1)))
    # (pos <= Len(s) /\ WordChar(SubSeq(s, pos, pos)))
LiteralMatchAt(alt, s, j) ==
  /\ j + Len(alt) <= Len(s) + 1
  /\ \A k \in 1..Len(alt) :
       SubSeq(alt, k, k) = "." \/ SubSeq(alt, k, k) = SubSeq(s, j + k - 1, j + k - 1)
AltSearch(alt, s, left, right) ==
  \E j \in 1..(Len(s) + 1) :
    /\ LiteralMatchAt(alt, s, j)
    /\ left => WordBoundary(s, j)
    /\ right => WordBoundary(s, j + Len(alt))
SelectsPatch(o) ==
  LET alts == SplitSep(o, "|")
  IN  \E i \in 1..Len(alts) : AltSearch(alts[i], SelectSubject, i = 1, i = Len(alts))

\* fail_json(msg="Module Failure", error=e) in main's except clauses: Ansible's
\* remove_values raises TypeError on the Exception value, so no document is
\* printed and the module dies with an uncaught TypeError.

VARIABLES
  pc,         \* position in main()
  op,         \* module.params['object']['operation'].lower()
  path,       \* module.params['object']['path']
  hasValue,   \* 'value' in module.params['object']
  hasFrom,    \* 'from' in module.params['object']
  getResp,    \* getResponse
  patchResp,  \* request.patch() result
  gets,       \* GET requests issued
  patches,    \* PATCH requests issued
  payload,    \* the json-patch document sent
  outputs,    \* result documents printed by exit_json/fail_json
  crashed,    \* the module ended in an uncaught exception
  rjson, rpath, rres,                      \* getPathValueFromDict harness
  uhost, uport, uns, ukind, uname, url     \* ApiEndpoint harness

mainVars == <<pc, op, path, hasValue, hasFrom, getResp, patchResp, gets,
              patches, payload, outputs, crashed>>
resolveVars == <<rjson, rpath, rres>>
urlVars == <<uhost, uport, uns, ukind, uname, url>>
vars == <<mainVars, resolveVars, urlVars>>

NoResp == [kind |-> "none", status |-> 0, body |-> Str("")]
NoPayload == <<>>

\* rres before getPathValueFromDict has been evaluated
NotEvaluated == [raise |-> FALSE, v |-> [t |-> "unset", v |-> "", m |-> <<>>]]
InitResolveIdle == rjson = EmptyDict /\ rpath = "" /\ rres = NotEvaluated
InitUrlIdle == uhost = "" /\ uport = 0 /\ uns = "" /\ ukind = "" /\ uname = "" /\ url = ""
InitMainIdle ==
  /\ pc = "idle" /\ op = "get" /\ path = "" /\ hasValue = FALSE /\ hasFrom = FALSE
  /\ getResp = NoResp /\ patchResp = NoResp /\ gets = 0 /\ patches = 0
  /\ payload = NoPayload /\ outputs = <<>> /\ crashed = FALSE

Init ==
  /\ pc = "start"
  /\ op \in Ops
  /\ path \in Paths
  /\ hasValue \in BOOLEAN
  /\ hasFrom \in BOOLEAN
  /\ getResp = NoResp /\ patchResp = NoResp
  /\ gets = 0 /\ patches = 0
  /\ payload = NoPayload /\ outputs = <<>> /\ crashed = FALSE
  /\ InitResolveIdle /\ InitUrlIdle

\* main(): confirm an absolute path for every operation but get
MainCheckPath ==
  /\ pc = "start"
  /\ IF op # "get" /\ ~StartsWithSlash(path)
     THEN /\ outputs' = Append(outputs,
                Outcome(TRUE, FALSE, "NO CHANGE: Declare an absolute path - e.g. /foo/baz.",
                        "N/A", NA, NA, "N/A"))
          /\ pc' = "exited"
     ELSE /\ pc' = "getObject" /\ UNCHANGED outputs
  /\ UNCHANGED <<op, path, hasValue, hasFrom, getResp, patchResp, gets, patches, payload, crashed>>
  /\ UNCHANGED <<resolveVars, urlVars>>

\* main(): getResponse = getObject(module); a raised Exception goes to
\* fail_json(error=e), which dies with TypeError.
getObject ==
  /\ pc = "getObject"
  /\ \E r \in GetResponses \cup {TransportError} :
       /\ gets' = gets + 1
       /\ IF r = TransportError
          THEN /\ crashed' = TRUE /\ pc' = "exited"
               /\ UNCHANGED getResp
          ELSE /\ getResp' = r /\ pc' = "dispatch" /\ UNCHANGED crashed
  /\ UNCHANGED <<op, path, hasValue, hasFrom, patchResp, patches, payload, outputs>>
  /\ UNCHANGED <<resolveVars, urlVars>>

\* main(): choose the operation. get classifies the GET response with
\* getResult = {} inside "except Exception" (SystemExit passes through).
MainDispatch ==
  /\ pc = "dispatch"
  /\ IF op = "get"
     THEN LET res == apiResponse(op, path, getResp, [kind |-> "dict", status |-> 0, body |-> EmptyDict])
          IN  /\ outputs' = outputs \o res.out
              /\ crashed' = (res.raise = "exc")
              /\ pc' = IF res.raise = "none" THEN "returned" ELSE "exited"
     ELSE IF SelectsPatch(op)
     THEN /\ pc' = "gate" /\ UNCHANGED <<outputs, crashed>>
     ELSE /\ outputs' = Append(outputs,
                Outcome(TRUE, FALSE, "Please select an operation from:\n                replace, add, remove, move, test, get",
                        "N/A", NA, NA, "N/A"))
          /\ pc' = "exited"
          /\ UNCHANGED crashed
  /\ UNCHANGED <<op, path, hasValue, hasFrom, getResp, patchResp, gets, patches, payload>>
  /\ UNCHANGED <<resolveVars, urlVars>>

\* patchObject: the idempotency decision on the GET body. Its apiResponse
\* call lies outside patchObject's try, so its SystemExit ends the run.
PatchGate ==
  /\ pc = "gate"
  /\ LET g == getPathValueFromDict(getResp.body, path)
     IN  IF g.raise
         THEN /\ crashed' = TRUE /\ pc' = "exited" /\ UNCHANGED outputs
         ELSE IF (g.v = FailedKeyError /\ op = "replace")
                 \/ (g.v # FailedKeyError /\ op = "add")
         THEN LET res == apiResponse(op, path, IntResult(0), getResp)
              IN  /\ outputs' = outputs \o res.out
                  /\ crashed' = (res.raise = "exc")
                  /\ pc' = IF res.raise = "none" THEN "send" ELSE "exited"
         ELSE /\ pc' = "send" /\ UNCHANGED <<outputs, crashed>>
  /\ UNCHANGED <<op, path, hasValue, hasFrom, getResp, patchResp, gets, patches, payload>>
  /\ UNCHANGED <<resolveVars, urlVars>>

PayloadDoc(fields, o, p) ==
  <<[f \in fields |->
      CASE f = "op" -> Str(o) [] f = "path" -> Str(RStripSlash(p))
        [] f = "value" -> UserValue [] f = "from" -> Str(UserFrom)]>>

\* Variant of BuildPayload testing op # "move" instead of the substring test.
BuildPayloadMut(o, p, hasV, hasF) ==
  IF o # "move"
  THEN [ok |-> hasV, doc |-> PayloadDoc({"op", "path", "value"}, o, p)]
  ELSE [ok |-> hasF, doc |-> PayloadDoc({"op", "path", "from"}, o, p)]

\* patchObject: [{'op': op, 'path': path.rstrip('/')}], plus 'value' when
\* "move" is not a substring of op, else 'from' when op == "move" (so
\* "remove" gets neither). A missing key raises KeyError.
BuildPayload(o, p, hasV, hasF) ==
  IF ~Contains(o, "move")
  THEN [ok |-> hasV, doc |-> PayloadDoc({"op", "path", "value"}, o, p)]
  ELSE IF o = "move"
  THEN [ok |-> hasF, doc |-> PayloadDoc({"op", "path", "from"}, o, p)]
  ELSE [ok |-> TRUE, doc |-> PayloadDoc({"op", "path"}, o, p)]

\* patchObject: build the payload, PATCH, classify inside
\* "try ... except BaseException: raise Exception"; main's except turns the
\* Exception into fail_json(error=e), which dies with TypeError.
PatchSend ==
  /\ pc = "send"
  /\ LET b == BuildPayload(op, path, hasValue, hasFrom)
     IN  IF ~b.ok
         THEN /\ crashed' = TRUE /\ pc' = "exited"
              /\ UNCHANGED <<patchResp, patches, payload, outputs>>
         ELSE \E r \in PatchResponses \cup {TransportError} :
                LET res == IF r = TransportError THEN Raised
                           ELSE apiResponse(op, path, r, getResp)
                IN  /\ patches' = patches + 1
                    /\ payload' = b.doc
                    /\ patchResp' = r
                    /\ outputs' = outputs \o res.out
                    /\ crashed' = (res.raise # "none")
                    /\ pc' = IF res.raise = "none" THEN "returned" ELSE "exited"
  /\ UNCHANGED <<op, path, hasValue, hasFrom, getResp, gets>>
  /\ UNCHANGED <<resolveVars, urlVars>>

Next == MainCheckPath \/ getObject \/ MainDispatch \/ PatchGate \/ PatchSend

Spec == Init /\ [][Next]_vars

Done == pc \in {"exited", "returned"}

(***************************************************************************)
(* Harness: getPathValueFromDict on bounded nested mappings                *)
(***************************************************************************)
Keys == {"a", "b"}
Leaves == {Str("x"), FailedKeyError}
\* all mappings from a subset of Keys into vals
Mappings(vals) == UNION {{Dict(f) : f \in [ks -> vals]} : ks \in SUBSET Keys}
Level1 == Leaves \cup Mappings(Leaves)
JsonDocs == Mappings(Level1)
ResolvePaths == {"/a", "/a/b", "/a/b/", "/b/a", "/a/b/a", "/c"}

InitResolve ==
  /\ InitMainIdle /\ InitUrlIdle
  /\ rjson \in JsonDocs /\ rpath \in ResolvePaths /\ rres = NotEvaluated

\* value = getPathValueFromDict(jsonDict, path)
EvalResolve ==
  /\ rres = NotEvaluated
  /\ rres' = getPathValueFromDict(rjson, rpath)
  /\ UNCHANGED <<rjson, rpath>>
  /\ UNCHANGED <<mainVars, urlVars>>

SpecResolve == InitResolve /\ [][EvalResolve]_vars

(***************************************************************************)
(* Harness: ApiEndpoint(host, port, namespace, name, type, op).__str__()   *)
(***************************************************************************)
UpperAlpha == "ABCDEFGHIJKLMNOPQRSTUVWXYZ"
LowerAlpha == "abcdefghijklmnopqrstuvwxyz"
LowerChar(c) ==
  IF \E i \in 1..26 : SubSeq(UpperAlpha, i, i) = c
  THEN LET i == CHOOSE j \in 1..26 : SubSeq(UpperAlpha, j, j) = c
       IN  SubSeq(LowerAlpha, i, i)
  ELSE c
\* str.lower()
RECURSIVE ToLower(_)
ToLower(s) == IF s = "" THEN "" ELSE LowerChar(Head(s)) \o ToLower(Tail(s))

Digits == "0123456789"
\* str(n) for n >= 0
RECURSIVE IntToStr(_)
IntToStr(n) ==
  IF n < 10 THEN SubSeq(Digits, n + 1, n + 1)
  ELSE IntToStr(n \div 10) \o SubSeq(Digits, (n % 10) + 1, (n % 10) + 1)

\* ApiEndpoint.__init__: self.host = host.lstrip('https://')
EndpointHost(host) == LStrip(host, {"h", "t", "p", "s", ":", "/"})

\* ApiEndpoint.__str__
ApiEndpointStr(host, port, namespace, objectName, objectType) ==
  "https://" \o EndpointHost(host) \o ":" \o IntToStr(port) \o "/"
  \o "api/v1/namespaces/" \o namespace \o "/" \o ToLower(objectType)
  \o "s/" \o objectName

Hosts == {"https://host", "host", "https://10.0.0.1", "myocp.companyname.local", "https://ocp.example"}
Ports == {443, 8443}
Namespaces == {"ns", "demo-namespace"}
Kinds == {"ConfigMap", "configmap", "ResourceQuota"}
Names == {"cm1", "demo"}

InitUrl ==
  /\ InitMainIdle /\ InitResolveIdle
  /\ uhost \in Hosts /\ uport \in Ports /\ uns \in Namespaces
  /\ ukind \in Kinds /\ uname \in Names /\ url = ""

EvalUrl ==
  /\ url = ""
  /\ url' = ApiEndpointStr(uhost, uport, uns, uname, ukind)
  /\ UNCHANGED <<uhost, uport, uns, ukind, uname>>
  /\ UNCHANGED <<mainVars, resolveVars>>

SpecUrl == InitUrl /\ [][EvalUrl]_vars

(***************************************************************************)
(* Properties                                                              *)
(***************************************************************************)
Is2xx(r) == r.kind = "resp" /\ 200 <= r.status /\ r.status <= 299
Patched == patches = 1 /\ patchResp.kind = "resp"
First == outputs[1]

\* C1: for replace with a 2xx PATCH response, changed=false when the value at
\* the path in the response equals the value in the GET body, and
\* changed=true with old_value/new_value reported when they differ.
C1_ReplaceChanged ==
  (Done /\ op = "replace" /\ Patched /\ Is2xx(patchResp) /\ Len(outputs) >= 1) =>
    LET a == getPathValueFromDict(patchResp.body, path)
        g == getPathValueFromDict(getResp.body, path)
    IN  (~a.raise /\ ~g.raise) =>
          /\ (a.v = g.v => ~First.changed)
          /\ (a.v # g.v => First.changed /\ First.oldv = g.v /\ First.newv = a.v)

\* The value at a path of a GET body by JSON-pointer reading: present,
\* absent, or the path runs through a non-container.
PointerLookup(body, p) == GetItemReduce(body, Tail(Split(p)))

\* C2: add on a present path and replace on an absent path end in one failure
\* outcome (changed=false) with no PATCH; every other operation/presence
\* combination issues exactly one PATCH.
C2_Gate ==
  (Done /\ op \in {"replace", "add", "remove", "move", "test"} /\ getResp.kind = "resp"
        /\ PointerLookup(getResp.body, path).r \in {"ok", "KeyError"}) =>
    LET present == PointerLookup(getResp.body, path).r = "ok"
    IN  IF (op = "add" /\ present) \/ (op = "replace" /\ ~present)
        THEN patches = 0 /\ Len(outputs) = 1 /\ First.failed /\ ~First.changed
        ELSE patches = 1

\* The response apiResponse classifies and the undocumented rows.
Classified ==
  IF op = "get" THEN getResp ELSE patchResp
ClassifierRan ==
  \/ op = "get" /\ getResp.kind = "resp"
  \/ op # "get" /\ Patched
DocumentedRow(o, r) ==
  \/ Is2xx(r)
  \/ r.status = 401
  \/ r.status = 500 /\ o \in {"remove", "move"} /\ HasMessage(r.body) /\ MessageHasNeedle(r.body)
  \/ r.status = 500 /\ o = "test"

\* C3: every classified response matching no 2xx/401/documented-500 row
\* ends in the failure outcome "API call failed".
C3_Totality ==
  (Done /\ ClassifierRan /\ ~DocumentedRow(op, Classified)) =>
    /\ Len(outputs) >= 1
    /\ First.failed
    /\ First.msg = "FAILED: API call returned failure code."

\* C4: every run of main emits exactly one outcome; a success outcome is
\* never followed by another.
C4_ExactlyOne ==
  Done => Len(outputs) = 1

\* C5: test with a 2xx PATCH response yields testResult=true, changed=false;
\* with a 500 it yields a success outcome with testResult=false,
\* changed=false.
C5_Test ==
  (Done /\ op = "test" /\ Patched /\ Len(outputs) >= 1) =>
    /\ Is2xx(patchResp) => First.test = "True" /\ ~First.changed
    /\ patchResp.status = 500 =>
         ~First.failed /\ First.test = "False" /\ ~First.changed

C5_Witness ==
  Done /\ op = "test" /\ Patched /\ patchResp.status = 500 /\ Len(outputs) >= 1

\* C6 (as stated): remove answered by 500 whose message contains "Unable to
\* remove nonexistant key" yields a success outcome with changed=false; move
\* with the same answer yields the failure "Key to be moved does not exist".
ClaimPhrase == "Unable to remove nonexistant key"
PhraseMessage500 ==
  /\ Patched /\ patchResp.status = 500 /\ HasMessage(patchResp.body)
  /\ patchResp.body.m["message"].t = "str"
  /\ Contains(patchResp.body.m["message"].v, ClaimPhrase)
AbsentKey500 ==
  Patched /\ patchResp.status = 500 /\ HasMessage(patchResp.body)
  /\ MessageHasNeedle(patchResp.body)
ConfigurationError ==
  \/ op \notin {"get", "replace", "add", "remove", "move", "test"}
  \/ op # "get" /\ ~StartsWithSlash(path)
  \/ op # "get" /\ getResp.kind = "resp" /\ PointerLookup(getResp.body, path).r = "TypeError"
C7_NoNetwork ==
  (Done /\ ConfigurationError) =>
    gets = 0 /\ patches = 0 /\ Len(outputs) >= 1 /\ First.failed

\* C8: the wire payload is one element with op, the path without its
\* trailing slash, value for replace/add/test, nothing more for remove and
\* from for move.
WirePath(p) ==
  IF p # "" /\ SubSeq(p, Len(p), Len(p)) = "/" THEN SubSeq(p, 1, Len(p) - 1) ELSE p
C8_Payload ==
  patches = 1 =>
    /\ Len(payload) = 1
    /\ payload[1]["op"] = Str(op)
    /\ payload[1]["path"] = Str(WirePath(path))
    /\ op \in {"replace", "add", "test"} => DOMAIN payload[1] = {"op", "path", "value"}
    /\ op = "remove" => DOMAIN payload[1] = {"op", "path"}
    /\ op = "move" => DOMAIN payload[1] = {"op", "path", "from"}

C8_Witness ==
  patches = 1 /\ op = "remove" /\ path = "/data/k/"

\* JSON-pointer resolution with empty segments stripped: found, not found,
\* or an intermediate non-container.
NonEmpty(seg) == seg # ""
RECURSIVE PointerResolve(_, _)
PointerResolve(v, segs) ==
  IF segs = <<>> THEN [r |-> "found", v |-> v]
  ELSE IF v.t = "dict"
       THEN IF Head(segs) \in DOMAIN v.m
            THEN PointerResolve(v.m[Head(segs)], Tail(segs))
            ELSE [r |-> "notfound", v |-> Str("")]
       ELSE [r |-> "error", v |-> Str("")]
\* what getPathValueFromDict returns for an absent pointer
NotFoundResult == [raise |-> FALSE, v |-> FailedKeyError]

\* C9: a present pointer resolves to its sub-value, an absent one to a
\* NotFound result no present value equals, a pointer through a
\* non-container raises; a trailing slash does not change the result.
C9_Resolve ==
  rres # NotEvaluated =>
    LET ideal == PointerResolve(rjson, SelectSeq(Split(rpath), NonEmpty))
    IN  /\ ideal.r = "found" => rres = [raise |-> FALSE, v |-> ideal.v]
                                /\ rres # NotFoundResult
        /\ ideal.r = "notfound" => rres = NotFoundResult
        /\ ideal.r = "error" => rres.raise

\* C10: buildUrl strips only a literal leading "https://" from host and
\* yields https://{host}:{port}/api/v1/namespaces/{ns}/{lower(kind)}s/{name}.
HttpsPrefix == "https://"
StripHttps(h) ==
  IF Len(h) >= Len(HttpsPrefix) /\ SubSeq(h, 1, Len(HttpsPrefix)) = HttpsPrefix
  THEN SubSeq(h, Len(HttpsPrefix) + 1, Len(h)) ELSE h
C10_Url ==
  url # "" =>
    url = "https://" \o StripHttps(uhost) \o ":" \o IntToStr(uport)
          \o "/api/v1/namespaces/" \o uns \o "/" \o ToLower(ukind) \o "s/" \o uname

====
